---- MODULE Spec2Model ----
(***************************************************************************)
(* A model of macroquad-forestfire (src/src/main.rs): the DebounceToggle   *)
(* latch, the bit-packed CellField, and the frame loop of main that ages   *)
(* and spreads fires, ignites cells and regrows trees, and the             *)
(* PoissonProcess that counts the events of a frame.                       *)
(*                                                                         *)
(* A u64 block of CellField.arr is modelled as the set of its one bits     *)
(* (a subset of 0..63): x | m is union, x & !m is difference, 1 << s is    *)
(* {s}.  A Fire(x, y, age) is the tuple <<x, y, age>>.                      *)
(***************************************************************************)
EXTENDS Integers, Sequences, FiniteSets, TLC

VARIABLES
    state,       \* DebounceToggle.1 of showpopup
    inputs,      \* latch driver: the values f() returned, one per get()
    results,     \* latch driver: the values get() returned
    w, h,        \* the grid's width and height
    cellfield,   \* CellField: [arr, ystride]
    last,        \* grid driver: the last CellField call, <<op, x, y>>
    fires,       \* Vec<Fire> of the current frame
    nprop,       \* newfires.len() at the end of the propagate loop of the last frame
    firemaxage,  \* firemaxage.floor() as usize
    eightconn,   \* the 8-connected checkbox
    frno,        \* frames run so far
    poisson,     \* PoissonProcess.0 of the draw driver, in 1 / Unit
    tally        \* draw driver: the last draw() call and the sums over all calls

vars == <<state, inputs, results, w, h, cellfield, last, fires, nprop,
          firemaxage, eightconn, frno, poisson, tally>>

latchVars == <<state, inputs, results>>
gridVars == <<w, h, cellfield, last>>
simVars == <<fires, nprop, firemaxage, eightconn, frno>>
drawVars == <<poisson, tally>>

(***************************************************************************)
(* Bounds of the model.                                                    *)
(***************************************************************************)
MaxPolls == 6      \* get() calls of the latch driver
MaxGridW == 9      \* the grid driver's grids are 1..MaxGridW by 1..MaxGridH:
MaxGridH == 9      \* below, at and past the edge of a block
MaxSimW == 2       \* the simulation's grids are 1..MaxSimW by 1..MaxSimH
MaxSimH == 2
MaxAge == 1        \* firemaxage ranges over 0..MaxAge
MaxEvents == 1     \* spontaneous fires + pointer ignitions + new trees of one frame
MaxFrames == 3     \* frames of one run
ScenFrames == 4    \* frames of one run of the single-ignition scenario
MaxBurnFires == 2  \* fires of the initial fire set of a burn-out run
MaxDraws == 3      \* draw() calls of the draw driver
Res == 2           \* avgper and ln(ur) are multiples of 1 / Res
MaxRate == 2       \* avgper ranges over 0 .. MaxRate / Res
MaxLn == 3         \* ln(ur) ranges over -MaxLn / Res .. 0

(***************************************************************************)
(* DebounceToggle                                                          *)
(***************************************************************************)

\* DebounceToggle::new: the state starts at 0
DebounceToggle_new == 0

\* DebounceToggle_next without its arm (3, false) => 0
DebounceToggle_next_noReset(st, f) ==
    CASE st = 0 /\ f = TRUE -> 1
      [] st = 1 /\ f = FALSE -> 2
      [] st = 2 /\ f = TRUE -> 3
      [] OTHER -> st

\* DebounceToggle_next with the arm (1, false) => 2 written (1, _) => 2
DebounceToggle_next_anyInput(st, f) ==
    CASE st = 0 /\ f = TRUE -> 1
      [] st = 1 -> 2
      [] st = 2 /\ f = TRUE -> 3
      [] st = 3 /\ f = FALSE -> 0
      [] OTHER -> st

\* DebounceToggle_next with the arm (3, false) => 2: the release after the
\* second press shows the popup again
DebounceToggle_next_twoPhase(st, f) ==
    CASE st = 0 /\ f = TRUE -> 1
      [] st = 1 /\ f = FALSE -> 2
      [] st = 2 /\ f = TRUE -> 3
      [] st = 3 /\ f = FALSE -> 2
      [] OTHER -> st

\* the match of DebounceToggle::get: the next state from (*state, f())
DebounceToggle_next(st, f) ==
    CASE st = 0 /\ f = TRUE -> 1
      [] st = 1 /\ f = FALSE -> 2
      [] st = 2 /\ f = TRUE -> 3
      [] st = 3 /\ f = FALSE -> 0
      [] OTHER -> st

\* DebounceToggle_get returning *state >= 2
DebounceToggle_get_atLeast2(st, f) ==
    LET new == CASE st = 0 /\ f = TRUE -> 1
                 [] st = 1 /\ f = FALSE -> 2
                 [] st = 2 /\ f = TRUE -> 3
                 [] st = 3 /\ f = FALSE -> 0
                 [] OTHER -> st
    IN  [state |-> new, ret |-> (new >= 2)]

\* DebounceToggle::get with f() = f: the new state and the returned bool
DebounceToggle_get(st, f) ==
    LET new == DebounceToggle_next(st, f)
    IN  [state |-> new, ret |-> (new = 2)]

(***************************************************************************)
(* PoissonProcess                                                          *)
(*                                                                         *)
(* The f32 values are exact fractions: avgper and ln(ur) are multiples of  *)
(* 1 / Res, so er, newacc and the accumulator are multiples of 1 / Unit.   *)
(* The rounding of the f32 sum and product is not modelled.                *)
(***************************************************************************)

\* 1.0 in the accumulator's unit
Unit == Res * Res

\* PoissonProcess::new: the accumulator starts at 0.0
PoissonProcess_new == 0

\* draw with avgper raised to the smallest positive rate
PoissonProcess_draw_clamped(pacc, avgper, lnur) ==
    LET er == (0 - (IF avgper = 0 THEN 1 ELSE avgper)) * lnur
        newacc == pacc + er
        faf == (newacc \div Unit) * Unit
    IN  [acc |-> newacc - faf, ret |-> faf \div Unit]

\* draw that stores 0.0 and drops the fraction
PoissonProcess_draw_noCarry(pacc, avgper, lnur) ==
    LET er == (0 - avgper) * lnur
        newacc == pacc + er
        faf == (newacc \div Unit) * Unit
    IN  [acc |-> 0, ret |-> faf \div Unit]

\* PoissonProcess::draw with *acc = pacc and ur.ln() = lnur (at most 0, as
\* ur <= 1): the new accumulator and the returned count
PoissonProcess_draw(pacc, avgper, lnur) ==
    LET er == (0 - avgper) * lnur
        newacc == pacc + er
        faf == (newacc \div Unit) * Unit
    IN  [acc |-> newacc - faf, ret |-> faf \div Unit]

(***************************************************************************)
(* CellField                                                               *)
(***************************************************************************)

\* 1 << s on a u64
Shl1(s) == {s}

\* CellField::new
CellField_new(cw, ch) ==
    LET nx == (cw + 7) \div 8
        ny == (ch + 7) \div 8
    IN  [arr |-> [i \in 0..(nx * ny - 1) |-> {}], ystride |-> nx]

\* indices with the block offset computed without the stride
indices_noStride(self, x, y) ==
    <<(y \div 8) + (x \div 8), (y % 8) * 8 + (x % 8)>>

\* indices with the shift transposed: ix * 8 + iy
indices_transposed(self, x, y) ==
    <<(y \div 8) * self.ystride + (x \div 8), (x % 8) * 8 + (y % 8)>>

\* CellField::indices: <<offset into arr, shift>>
indices(self, x, y) ==
    LET ox == x \div 8
        ix == x % 8
        oy == y \div 8
        iy == y % 8
        s == iy * 8 + ix
    IN  <<oy * self.ystride + ox, s>>

\* CellField::get
get(self, x, y) ==
    LET i == indices(self, x, y)
    IN  (self.arr[i[1]] \cap Shl1(i[2])) # {}

\* set with ^= for |=
set_toggle(self, x, y) ==
    LET off == (y \div 8) * self.ystride + (x \div 8)
        m == Shl1((y % 8) * 8 + (x % 8))
    IN  [self EXCEPT !.arr[off] = (@ \cup m) \ (@ \cap m)]

\* CellField::set
set(self, x, y) ==
    LET i == indices(self, x, y)
    IN  [self EXCEPT !.arr[i[1]] = @ \cup Shl1(i[2])]

\* clr without the ! of its mask
clr_noNot(self, x, y) ==
    LET off == (y \div 8) * self.ystride + (x \div 8)
    IN  [self EXCEPT !.arr[off] = @ \cap Shl1((y % 8) * 8 + (x % 8))]

\* clr that leaves the bit set
clr_noop(self, x, y) == self

\* CellField::clr
clr(self, x, y) ==
    LET i == indices(self, x, y)
    IN  [self EXCEPT !.arr[i[1]] = @ \cap ((0..63) \ Shl1(i[2]))]

(***************************************************************************)
(* main: the frame loop                                                    *)
(***************************************************************************)

\* firemaxage as main sets it before the loop
InitFireMaxAge == 10

\* the neighbour offsets; the first four are the orthogonal ones
ngh == << <<-1, 0>>, <<1, 0>>, <<0, -1>>, <<0, 1>>,
          <<-1, -1>>, <<-1, 1>>, <<1, -1>>, <<1, 1>> >>

\* numngh that ignores the checkbox
numngh_four(eight) == 4

\* numngh of one frame
numngh(eight) == IF eight THEN 8 ELSE 4

\* the cells of a cw by ch grid
Cells(cw, ch) == (0..(cw - 1)) \X (0..(ch - 1))

\* the sequences over S of length at most n
SeqsUpTo(S, n) == UNION {[1..k -> S] : k \in 0..n}

RECURSIVE SeedLoop(_, _, _, _, _)
\* the seeding loops of main from cell (x, y) on, row by row: trees is the set
\* of cells whose gen_range(0, 4) draw is 0
SeedLoop(cf, x, y, trees, dim) ==
    IF y >= dim[2] THEN cf
    ELSE IF x >= dim[1] THEN SeedLoop(cf, 0, y + 1, trees, dim)
    ELSE SeedLoop(IF <<x, y>> \in trees THEN set(cf, x, y) ELSE cf,
                  x + 1, y, trees, dim)

RECURSIVE NghLoop_clrSelf(_, _, _, _, _, _)
\* NghLoop with cellfield.clr(x, y) for cellfield.clr(cx, cy)
NghLoop_clrSelf(acc, x, y, j, n, dim) ==
    IF j > n THEN acc
    ELSE LET nx == x + ngh[j][1]
             ny == y + ngh[j][2]
             inb == nx >= 0 /\ nx < dim[1] /\ ny >= 0 /\ ny < dim[2]
             hit == inb /\ get(acc.cellfield, nx, ny)
             seen == IF inb THEN [acc EXCEPT !.touched = @ \cup {<<nx, ny>>}] ELSE acc
         IN  NghLoop_clrSelf(IF hit
                             THEN [seen EXCEPT
                                     !.newfires = Append(@, <<nx, ny, 0>>),
                                     !.cellfield = clr(@, x, y)]
                             ELSE seen,
                             x, y, j + 1, n, dim)

RECURSIVE NghLoop(_, _, _, _, _, _)
\* the loop over the neighbours j..numngh of the fire at (x, y);
\* acc = [newfires, cellfield, touched], dim = <<w, h>>; touched collects the
\* coordinates (cx, cy) that the loop passes to cellfield.get and cellfield.clr
NghLoop(acc, x, y, j, n, dim) ==
    IF j > n THEN acc
    ELSE LET nx == x + ngh[j][1]
             ny == y + ngh[j][2]
             inb == nx >= 0 /\ nx < dim[1] /\ ny >= 0 /\ ny < dim[2]
             hit == inb /\ get(acc.cellfield, nx, ny)
             seen == IF inb THEN [acc EXCEPT !.touched = @ \cup {<<nx, ny>>}] ELSE acc
         IN  NghLoop(IF hit
                     THEN [seen EXCEPT
                             !.newfires = Append(@, <<nx, ny, 0>>),
                             !.cellfield = clr(@, nx, ny)]
                     ELSE seen,
                     x, y, j + 1, n, dim)

\* TRUE for every v.  TLC computes v to decide it, so a loop that tests its
\* accumulator in each iteration is evaluated iteration by iteration and not
\* as one nested expression when it ends.
Strict(v) == v = v

\* the age test with <= for <
Carried_offByOne(fire, maxage) == fire[3] <= maxage

\* the age test comparing the age the fire would get
Carried_early(fire, maxage) == fire[3] + 1 < maxage

\* the age test of the propagate loop: the fire is carried with age + 1
Carried(fire, maxage) == fire[3] < maxage

RECURSIVE FireLoop_noAging(_, _, _, _, _, _)
\* FireLoop that carries a fire with its age as it is
FireLoop_noAging(acc, fs, i, maxage, n, dim) ==
    IF i > Len(fs) THEN acc
    ELSE LET f == fs[i]
             aged == IF Carried(f, maxage)
                     THEN [acc EXCEPT !.newfires = Append(@, <<f[1], f[2], f[3]>>)]
                     ELSE acc
             after == NghLoop(aged, f[1], f[2], 1, n, dim)
         IN  IF Strict(after) THEN FireLoop_noAging(after, fs, i + 1, maxage, n, dim)
             ELSE acc

RECURSIVE FireLoop(_, _, _, _, _, _)
\* "propagate new fires, age out old fires": the loop over fs[i..]
FireLoop(acc, fs, i, maxage, n, dim) ==
    IF i > Len(fs) THEN acc
    ELSE LET f == fs[i]
             aged == IF Carried(f, maxage)
                     THEN [acc EXCEPT !.newfires = Append(@, <<f[1], f[2], f[3] + 1>>)]
                     ELSE acc
             after == NghLoop(aged, f[1], f[2], 1, n, dim)
         IN  IF Strict(after) THEN FireLoop(after, fs, i + 1, maxage, n, dim) ELSE acc

\* the whole propagate loop, from an empty newfires
Propagate(fs, cf, maxage, n, dim) ==
    FireLoop([newfires |-> <<>>, cellfield |-> cf, touched |-> {}],
             fs, 1, maxage, n, dim)

RECURSIVE Spontaneous(_, _, _)
\* "spontaneous fires": sp are the coordinates drawn, one per event of fireproc
Spontaneous(nf, sp, i) ==
    IF i > Len(sp) THEN nf
    ELSE Spontaneous(Append(nf, <<sp[i][1], sp[i][2], 0>>), sp, i + 1)

\* f32 as usize: negative values saturate to 0
AsUsize(v) == IF v < 0 THEN 0 ELSE v

\* clamp without its upper bound
clamp_noUpper(v, lo, hi) == IF v < lo THEN lo ELSE v

\* clamp(v, lo, hi)
clamp(v, lo, hi) == IF v < lo THEN lo ELSE IF v > hi THEN hi ELSE v

\* the mouse and the touch ignition: pos is <<>> (no button down, not one
\* touch) or the pointer's position
Pointer(nf, pos, dim) ==
    IF pos = <<>> THEN nf
    ELSE Append(nf, <<clamp(AsUsize(pos[1]), 0, dim[1] - 1),
                      clamp(AsUsize(pos[2]), 0, dim[2] - 1), 0>>)

RECURSIVE NewTrees(_, _, _)
\* "new trees": rg are the coordinates drawn, one per event of treeproc
NewTrees(cf, rg, i) ==
    IF i > Len(rg) THEN cf
    ELSE NewTrees(set(cf, rg[i][1], rg[i][2]), rg, i + 1)

\* the positions a pointer reports: the cells of the grid, and the two
\* positions diagonally past its corners
PointerPos(dim) == Cells(dim[1], dim[2]) \cup {<<-1, -1>>, <<dim[1], dim[2]>>}

\* a pointer's input when n more events fit into the frame
PointerInputs(dim, n) == IF n > 0 THEN {<<>>} \cup PointerPos(dim) ELSE {<<>>}

\* 1 for a pointer that ignites, else 0
Down(pos) == IF pos = <<>> THEN 0 ELSE 1

\* One iteration of the loop of main.  key is the latch's input; age and eight
\* are the values the firemaxage slider and the 8-connected checkbox are left
\* at, which the popup sets only in a frame where showpopup.get() is true;
\* sp, mouse, touch and rg are the frame's draws and pointer inputs.
\* Len(sp) and Len(rg) are what fireproc.draw and treeproc.draw return: over
\* the rates, the uniform draws and the accumulators that is any count, so the
\* frame takes the counts as inputs and the two accumulators are left out of
\* its state (poisson is the accumulator of the draw driver).
Frame(key, age, eight, sp, mouse, touch, rg) ==
    LET g == DebounceToggle_get(state, key)
        dim == <<w, h>>
        maxage == IF g.ret THEN age ELSE firemaxage
        conn == IF g.ret THEN eight ELSE eightconn
        r == Propagate(fires, cellfield, maxage, numngh(conn), dim)
        nf == Pointer(Pointer(Spontaneous(r.newfires, sp, 1), mouse, dim), touch, dim)
    IN  /\ state' = g.state
        /\ firemaxage' = maxage
        /\ eightconn' = conn
        /\ cellfield' = NewTrees(r.cellfield, rg, 1)
        /\ fires' = nf
        /\ nprop' = Len(r.newfires)
        /\ frno' = frno + 1
        /\ UNCHANGED <<inputs, results, w, h, last, drawVars>>

\* the values the firemaxage slider is left at
Ages == (0..MaxAge) \cup {InitFireMaxAge}

\* the latch as main creates it, not yet polled
LatchInit ==
    /\ state = DebounceToggle_new
    /\ inputs = <<>>
    /\ results = <<>>

\* a PoissonProcess as main creates it, not yet drawn from
DrawInit ==
    /\ poisson = PoissonProcess_new
    /\ tally = [calls |-> 0, avgper |-> 0, before |-> 0, er |-> 0, ret |-> 0,
                counts |-> 0, gaps |-> 0]

\* main before its loop, but for the grid: no fires, the sliders' defaults
SimInit ==
    /\ fires = <<>>
    /\ nprop = 0
    /\ firemaxage = InitFireMaxAge
    /\ eightconn = FALSE
    /\ frno = 0

\* the state main enters its loop in: the grid seeded with any set of trees
Init ==
    /\ LatchInit
    /\ w \in 1..MaxSimW
    /\ h \in 1..MaxSimH
    /\ \E trees \in SUBSET Cells(w, h) :
           cellfield = SeedLoop(CellField_new(w, h), 0, 0, trees, <<w, h>>)
    /\ last = <<"new", w, h>>
    /\ SimInit
    /\ DrawInit

\* one frame, with at most MaxEvents spontaneous fires, pointer ignitions and
\* new trees in all
Step ==
    /\ frno < MaxFrames
    /\ \E key \in BOOLEAN :
       \E age \in IF DebounceToggle_get(state, key).ret THEN Ages ELSE {firemaxage} :
       \E eight \in IF DebounceToggle_get(state, key).ret THEN BOOLEAN ELSE {eightconn} :
       \E sp \in SeqsUpTo(Cells(w, h), MaxEvents) :
       \E rg \in SeqsUpTo(Cells(w, h), MaxEvents - Len(sp)) :
       \E mouse \in PointerInputs(<<w, h>>, MaxEvents - Len(sp) - Len(rg)) :
       \E touch \in PointerInputs(<<w, h>>, MaxEvents - Len(sp) - Len(rg) - Down(mouse)) :
           Frame(key, age, eight, sp, mouse, touch, rg)

Next == Step

Spec == Init /\ [][Next]_vars

(***************************************************************************)
(* The latch alone: a driver that calls get() with any inputs and records  *)
(* what f() and get() returned.                                            *)
(***************************************************************************)

InitLatch ==
    /\ LatchInit
    /\ w = 1
    /\ h = 1
    /\ cellfield = CellField_new(1, 1)
    /\ last = <<"new", 1, 1>>
    /\ SimInit
    /\ DrawInit

\* one call of showpopup.get() in which f() returns f
Poll(f) ==
    LET g == DebounceToggle_get(state, f)
    IN  /\ state' = g.state
        /\ inputs' = Append(inputs, f)
        /\ results' = Append(results, g.ret)
        /\ UNCHANGED <<gridVars, simVars, drawVars>>

NextLatch == Len(inputs) < MaxPolls /\ \E f \in BOOLEAN : Poll(f)

SpecLatch == InitLatch /\ [][NextLatch]_vars

(***************************************************************************)
(* The CellField alone: a driver that creates a grid of any size in the    *)
(* bounds and calls set and clr on it.                                     *)
(***************************************************************************)

\* the coordinates below n the driver passes: the first of each block, and n - 1
Probes(n) == {c \in 0..(n - 1) : c % 8 = 0 \/ c = n - 1}

InitGrid ==
    /\ LatchInit
    /\ w \in 1..MaxGridW
    /\ h \in 1..MaxGridH
    /\ cellfield = CellField_new(w, h)
    /\ last = <<"new", w, h>>
    /\ SimInit
    /\ DrawInit

\* cellfield.set(x, y)
GridSet(x, y) ==
    /\ cellfield' = set(cellfield, x, y)
    /\ last' = <<"set", x, y>>
    /\ UNCHANGED <<latchVars, w, h, simVars, drawVars>>

\* cellfield.clr(x, y)
GridClr(x, y) ==
    /\ cellfield' = clr(cellfield, x, y)
    /\ last' = <<"clr", x, y>>
    /\ UNCHANGED <<latchVars, w, h, simVars, drawVars>>

NextGrid ==
    \E x \in Probes(w), y \in Probes(h) : GridSet(x, y) \/ GridClr(x, y)

SpecGrid == InitGrid /\ [][NextGrid]_vars

(***************************************************************************)
(* The single-ignition scenario: a fully occupied 5 by 5 grid, one pointer *)
(* ignition in the first frame, then frames with no ignition and no new    *)
(* tree; the popup stays closed.  The sliders were set before the          *)
(* scenario starts, and frno counts the scenario's frames.                 *)
(***************************************************************************)

InitScen ==
    /\ LatchInit
    /\ w = 5
    /\ h = 5
    /\ cellfield = SeedLoop(CellField_new(5, 5), 0, 0, Cells(5, 5), <<5, 5>>)
    /\ last = <<"new", 5, 5>>
    /\ fires = <<>>
    /\ nprop = 0
    /\ firemaxage \in 0..MaxAge
    /\ eightconn \in BOOLEAN
    /\ frno = 0
    /\ DrawInit

\* the first frame: the mouse button is down on cell m
Ignite(m) ==
    /\ frno = 0
    /\ Frame(FALSE, firemaxage, eightconn, <<>>, m, <<>>, <<>>)

\* a later frame: no input at all
Burn ==
    /\ frno > 0
    /\ frno < ScenFrames
    /\ Frame(FALSE, firemaxage, eightconn, <<>>, <<>>, <<>>, <<>>)

NextScen == (\E m \in Cells(w, h) : Ignite(m)) \/ Burn

SpecScen == InitScen /\ [][NextScen]_vars

(***************************************************************************)
(* Burn-out: frames with no spontaneous fire, no pointer ignition and no   *)
(* new tree (both draws return 0), the popup closed, from any grid and any *)
(* fire set of at most MaxBurnFires fires.  The loop of main runs a frame  *)
(* whenever the last one has ended: the frame is weakly fair.  BurnCap     *)
(* frames are more than any fire of the run can last.                      *)
(***************************************************************************)

\* the fires of a cw by ch grid with ages up to a
FiresOf(cw, ch, a) == {<<c[1], c[2], g>> : c \in Cells(cw, ch), g \in 0..a}

\* frames of a burn-out run: every cell and every initial fire burns for at
\* most MaxAge + 2 frames
BurnCap == (MaxSimW * MaxSimH + MaxBurnFires) * (MaxAge + 2)

InitBurn ==
    /\ LatchInit
    /\ w \in 1..MaxSimW
    /\ h \in 1..MaxSimH
    /\ \E trees \in SUBSET Cells(w, h) :
           cellfield = SeedLoop(CellField_new(w, h), 0, 0, trees, <<w, h>>)
    /\ last = <<"new", w, h>>
    /\ fires \in SeqsUpTo(FiresOf(w, h, MaxAge + 1), MaxBurnFires) \ {<<>>}
    /\ nprop = 0
    /\ firemaxage \in 0..MaxAge
    /\ eightconn \in BOOLEAN
    /\ frno = 0
    /\ DrawInit

\* a frame without any input
Quiet ==
    /\ frno < BurnCap
    /\ Frame(FALSE, firemaxage, eightconn, <<>>, <<>>, <<>>, <<>>)

NextBurn == Quiet

\* what a frame does to frno.  A frame is possible exactly when Tick is, and
\* only a frame changes frno, so weak fairness of Tick on frno is weak
\* fairness of the frame.
Tick == frno < BurnCap /\ frno' = frno + 1

SpecBurn == InitBurn /\ [][NextBurn]_vars /\ WF_frno(Tick)

(***************************************************************************)
(* The PoissonProcess alone: a driver that calls draw() with any rate and  *)
(* any uniform draw, and records the last call and the sums of the counts  *)
(* returned and of the gaps er added.                                      *)
(***************************************************************************)

InitDraw ==
    /\ LatchInit
    /\ w = 1
    /\ h = 1
    /\ cellfield = CellField_new(1, 1)
    /\ last = <<"new", 1, 1>>
    /\ SimInit
    /\ DrawInit

\* one call draw(avgper) in which ur.ln() is lnur
Draw(avgper, lnur) ==
    LET d == PoissonProcess_draw(poisson, avgper, lnur)
        er == (0 - avgper) * lnur
    IN  /\ poisson' = d.acc
        /\ tally' = [calls |-> tally.calls + 1, avgper |-> avgper, before |-> poisson,
                     er |-> er, ret |-> d.ret,
                     counts |-> tally.counts + d.ret, gaps |-> tally.gaps + er]
        /\ UNCHANGED <<latchVars, gridVars, simVars>>

NextDraw ==
    /\ tally.calls < MaxDraws
    /\ \E avgper \in 0..MaxRate, lnur \in (0 - MaxLn)..0 : Draw(avgper, lnur)

SpecDraw == InitDraw /\ [][NextDraw]_vars

(***************************************************************************)
(* Properties of DebounceToggle                                            *)
(***************************************************************************)

\* the transition table of the latch: <<state, input, next state>>
Table == {<<0, TRUE, 1>>, <<1, FALSE, 2>>, <<2, TRUE, 3>>, <<3, FALSE, 0>>}

\* the table's next state: a pair it does not list is a self-loop
TableNext(st, f) ==
    IF \E t \in Table : t[1] = st /\ t[2] = f
    THEN (CHOOSE t \in Table : t[1] = st /\ t[2] = f)[3]
    ELSE st

RECURSIVE TableAfter(_, _)
\* the table's state after the first k inputs of ins, from S0
TableAfter(ins, k) == IF k = 0 THEN 0 ELSE TableNext(TableAfter(ins, k - 1), ins[k])

\* C4: from S0 the latch follows the transition table, get() returns true
\* exactly when the state it reaches is S2, and the inputs
\* [false, true, false, true, false] give [false, false, true, false, false].
C4_TransitionTable ==
    /\ Len(results) = Len(inputs)
    /\ state = TableAfter(inputs, Len(inputs))
    /\ \A k \in 1..Len(inputs) : results[k] = (TableAfter(inputs, k) = 2)
    /\ (Len(inputs) >= 5 /\ SubSeq(inputs, 1, 5) = <<FALSE, TRUE, FALSE, TRUE, FALSE>>)
           => SubSeq(results, 1, 5) = <<FALSE, FALSE, TRUE, FALSE, FALSE>>

\* C4, witness: the five inputs of the sequence test have been polled and the
\* latch is back in S0.
C4_SequencePolled ==
    /\ inputs = <<FALSE, TRUE, FALSE, TRUE, FALSE>>
    /\ state = 0

\* C5, as claimed: get() is never true on two consecutive polls.
C5_SinglePulse ==
    \A k \in 1..(Len(results) - 1) : ~(results[k] /\ results[k + 1])

\* C5, amended: get() is true on every poll that leaves the latch in S2: once
\* true it stays true while the input stays false and turns false on the next
\* true input, so the true polls of one traversal are consecutive, and between
\* two separate runs of true polls the input was true, false, true and false
\* in this order.
C5_LevelUntilPress ==
    /\ \A k \in 1..(Len(results) - 1) :
           results[k] => (results[k + 1] = ~inputs[k + 1])
    /\ \A i, j \in 1..Len(results) :
           (i < j /\ results[i] /\ results[j] /\ \E m \in i..j : ~results[m])
               => \E a, b, c, d \in (i + 1)..j :
                      /\ a < b /\ b < c /\ c < d
                      /\ inputs[a] /\ ~inputs[b] /\ inputs[c] /\ ~inputs[d]

\* C5, witness: get() was true on two consecutive polls and then false, or was
\* true in two separate runs.
C5_HeldOpen ==
    \/ \E k \in 1..(Len(results) - 2) : results[k] /\ results[k + 1] /\ ~results[k + 2]
    \/ \E i, j \in 1..Len(results) :
           i < j /\ results[i] /\ results[j] /\ \E m \in i..j : ~results[m]

\* C6: two consecutive polls that see the same input return the same result,
\* and the state a poll reaches on an input is a fixed point under that input.
C6_NoFlicker ==
    /\ \A k \in 1..(Len(inputs) - 1) :
           inputs[k] = inputs[k + 1] => results[k] = results[k + 1]
    /\ \A v \in BOOLEAN :
           LET once == DebounceToggle_get(state, v)
               twice == DebounceToggle_get(once.state, v)
           IN  twice.state = once.state /\ twice.ret = once.ret

\* C6, witness: the input was held at true over two polls and later held at
\* false over two polls, the second pair returning true.
C6_HeldInputs ==
    \E j, k \in 1..(Len(inputs) - 1) :
        /\ j < k
        /\ inputs[j] /\ inputs[j + 1]
        /\ ~inputs[k] /\ ~inputs[k + 1] /\ results[k] /\ results[k + 1]

\* C17: when get() has returned true and on the next poll false, and returns
\* true on a later poll j, then the polls after that next poll, up to j, saw
\* the input false, then true, then false, in this order.
C17_FullCycle ==
    \A i, j \in 1..Len(results) :
        (i + 1 < j /\ results[i] /\ ~results[i + 1] /\ results[j])
            => \E a, b, c \in (i + 2)..j :
                   /\ a < b /\ b < c
                   /\ ~inputs[a] /\ inputs[b] /\ ~inputs[c]

\* C17, witness: get() returned true, false on the next poll, and true again
\* on the last of MaxPolls polls.
C17_FiredAgain ==
    /\ Len(results) = MaxPolls
    /\ results[MaxPolls]
    /\ \E i \in 1..(MaxPolls - 2) : results[i] /\ ~results[i + 1]

(***************************************************************************)
(* Properties of PoissonProcess                                            *)
(***************************************************************************)

\* C11: draw(0.0) returns 0 and leaves the accumulator as it is, for every
\* ur and every accumulator that earlier calls have left; so did the last
\* call if its rate was 0.
C11_ZeroRate ==
    /\ \A lnur \in (0 - MaxLn)..0 :
           PoissonProcess_draw(poisson, 0, lnur) = [acc |-> poisson, ret |-> 0]
    /\ (tally.calls > 0 /\ tally.avgper = 0) => (tally.ret = 0 /\ poisson = tally.before)

\* C11, witness: the last of several calls had rate 0 while the accumulator
\* held a fraction that an earlier call, of a rate above 0, had left.
C11_FractionKept ==
    /\ tally.calls >= 2
    /\ tally.avgper = 0
    /\ tally.before # 0 /\ poisson # 0

CeilDiv8(n) == CHOOSE k \in 0..n : 8 * k >= n /\ 8 * (k - 1) < n

\* C7: in any grid state, for every cell of the grid, get after set is true
\* and get after a following clr is false; so it is after the driver's calls.
C7_RoundTrip ==
    /\ \A x \in 0..(w - 1), y \in 0..(h - 1) :
           /\ get(set(cellfield, x, y), x, y)
           /\ ~get(clr(set(cellfield, x, y), x, y), x, y)
    /\ last[1] = "set" => get(cellfield, last[2], last[3])
    /\ last[1] = "clr" => ~get(cellfield, last[2], last[3])

\* C7, witness: clr has just cleared the last cell of a grid of several blocks
\* whose sides are no multiples of 8, while cell (0, 0) is occupied.
C7_ClearedLastCell ==
    /\ w > 8 /\ w % 8 # 0
    /\ h > 8 /\ h % 8 # 0
    /\ last = <<"clr", w - 1, h - 1>>
    /\ get(cellfield, 0, 0)

\* C8: for every cell and every grid state, set twice leaves the storage as
\* set once does, and clr twice as clr once does.
C8_Idempotent ==
    \A x \in 0..(w - 1), y \in 0..(h - 1) :
        /\ set(set(cellfield, x, y), x, y) = set(cellfield, x, y)
        /\ clr(clr(cellfield, x, y), x, y) = clr(cellfield, x, y)

\* C8, witness: set was just called on a grid of several blocks that holds an
\* occupied cell in its first and in its last block.
C8_SeveralBlocks ==
    /\ last[1] = "set"
    /\ w > 8 /\ h > 8
    /\ get(cellfield, 0, 0) /\ get(cellfield, w - 1, h - 1)

\* C9: on a fresh w by h grid (the packing depends on the size alone) every
\* cell maps to block (y / 8) * ceil(w / 8) + x / 8, below
\* ceil(w / 8) * ceil(h / 8), the length of arr, and to bit
\* (y % 8) * 8 + x % 8 < 64, and no two cells map to the same pair; in a
\* 16 by 16 grid (0, 0) and (9, 9) are in different blocks, (0, 0) and (7, 7)
\* in one block at different bits.
C9_Packing ==
    /\ last[1] = "new" =>
         /\ \A c \in Cells(w, h) :
                LET i == indices(cellfield, c[1], c[2])
                IN  /\ i[1] = (c[2] \div 8) * CeilDiv8(w) + (c[1] \div 8)
                    /\ i[1] < CeilDiv8(w) * CeilDiv8(h)
                    /\ i[1] \in DOMAIN cellfield.arr
                    /\ i[2] = (c[2] % 8) * 8 + (c[1] % 8)
                    /\ i[2] < 64
         /\ \A c, d \in Cells(w, h) :
                c # d => indices(cellfield, c[1], c[2]) # indices(cellfield, d[1], d[2])
         /\ Cardinality(DOMAIN cellfield.arr) = CeilDiv8(w) * CeilDiv8(h)
    /\ LET g == CellField_new(16, 16)
       IN  /\ indices(g, 0, 0)[1] # indices(g, 9, 9)[1]
           /\ indices(g, 0, 0)[1] = indices(g, 7, 7)[1]
           /\ indices(g, 0, 0)[2] # indices(g, 7, 7)[2]

\* C9, witness: a fresh grid of two by two blocks whose sides are no multiples
\* of 8.
C9_FreshGrid ==
    /\ last[1] = "new"
    /\ w > 8 /\ w % 8 # 0
    /\ h > 8 /\ h % 8 # 0

(***************************************************************************)
(* Properties of the frame loop                                            *)
(***************************************************************************)

\* the coordinates of fire i of fs
At(fs, i) == <<fs[i][1], fs[i][2]>>

\* the fires of fs as a set
FireSet(fs) == {fs[i] : i \in 1..Len(fs)}

\* the coordinates of the fires of fs
Coords(fs) == {At(fs, i) : i \in 1..Len(fs)}

\* cells a and b are orthogonal neighbours
Orthogonal(a, b) ==
    \/ a[1] = b[1] /\ (a[2] = b[2] + 1 \/ b[2] = a[2] + 1)
    \/ a[2] = b[2] /\ (a[1] = b[1] + 1 \/ b[1] = a[1] + 1)

\* C1, as claimed: after any frame no coordinate appears twice in the fire set.
C1_NoCellTwice ==
    \A i, j \in 1..Len(fires) : i # j => At(fires, i) # At(fires, j)

\* C1, amended: the fires that the propagate loop of one frame adds by
\* contagion (the fires of age 0 among the first nprop) have pairwise distinct
\* coordinates; a spontaneous or pointer ignition, or the carried fire of a
\* cell that is still occupied, may repeat a coordinate.
C1_ContagionOnce ==
    \A i, j \in 1..nprop :
        (i # j /\ fires[i][3] = 0 /\ fires[j][3] = 0) => At(fires, i) # At(fires, j)

\* C1, witness: contagion has added a cell that has two burning orthogonal
\* neighbours, both carried in the same frame.
C1_SharedNeighbour ==
    \E i, j, k \in 1..nprop :
        /\ fires[i][3] = 0 /\ fires[j][3] > 0 /\ fires[k][3] > 0
        /\ At(fires, j) # At(fires, k)
        /\ Orthogonal(At(fires, i), At(fires, j))
        /\ Orthogonal(At(fires, i), At(fires, k))

\* C2, as claimed: no cell of the fire set is occupied in the grid.
C2_BurningNotOccupied ==
    \A i \in 1..Len(fires) : ~get(cellfield, fires[i][1], fires[i][2])

\* the first frame of the single-ignition scenario has run: 4-connected,
\* firemaxage 1, the fire set holds only (2, 2) at age 0
ScenIgnited ==
    /\ w = 5 /\ h = 5 /\ ~eightconn /\ firemaxage = 1
    /\ frno = 1
    /\ fires = << <<2, 2, 0>> >>

\* the fire set the claim gives for the step after the ignition
ScenStep1 == {<<2, 2, 1>>, <<1, 2, 0>>, <<3, 2, 0>>, <<2, 1, 0>>, <<2, 3, 0>>}

\* the cells two orthogonal steps from (2, 2)
ScenOutward ==
    {<<0, 2>>, <<4, 2>>, <<2, 0>>, <<2, 4>>, <<1, 1>>, <<1, 3>>, <<3, 1>>, <<3, 3>>}

\* C3, as claimed: in the single-ignition scenario the step after the ignition
\* yields exactly ScenStep1, and the step after that leaves (2, 2) out of the
\* fire set while it ignites the cells further outward.
C3_SingleIgnition ==
    [][/\ ScenIgnited => (FireSet(fires') = ScenStep1 /\ Len(fires') = 5)
       /\ (frno = 2 /\ w = 5 /\ h = 5 /\ ~eightconn /\ firemaxage = 1
             /\ FireSet(fires) = ScenStep1)
          => /\ <<2, 2>> \notin Coords(fires')
             /\ \A c \in ScenOutward : <<c[1], c[2], 0>> \in FireSet(fires')]_vars

\* C3, the part the code does: the step after the ignition yields ScenStep1.
C3_FirstStep ==
    [][ScenIgnited => (FireSet(fires') = ScenStep1 /\ Len(fires') = 5)]_vars

\* C10: every bit set in the grid's storage is the bit of a cell of the grid:
\* the bits of the blocks past the width or the height stay 0.
C10_PaddingClear ==
    \A off \in DOMAIN cellfield.arr : \A s \in cellfield.arr[off] :
        /\ (off % cellfield.ystride) * 8 + (s % 8) < w
        /\ (off \div cellfield.ystride) * 8 + (s \div 8) < h

\* C10, witness: frames have run, a fire burns, and the last cell before the
\* padding is occupied in a grid whose blocks reach past it.
C10_EdgeOccupied ==
    /\ frno > 1 /\ fires # <<>>
    /\ w % 8 # 0 /\ h % 8 # 0
    /\ get(cellfield, w - 1, h - 1)

\* the number of entries of fs that equal e
Count(fs, e) == Cardinality({i \in 1..Len(fs) : fs[i] = e})

\* fs as a multiset: each fire of fs with the number of its entries
BagOf(fs) == [e \in FireSet(fs) |-> Count(fs, e)]

\* cells a and b are diagonal neighbours
Diagonal(a, b) ==
    /\ (a[1] = b[1] + 1 \/ b[1] = a[1] + 1)
    /\ (a[2] = b[2] + 1 \/ b[2] = a[2] + 1)

\* cell c is a neighbour of a fire of fs in the connectivity mode
NextToFire(c, fs, eight) ==
    \E i \in 1..Len(fs) :
        Orthogonal(c, At(fs, i)) \/ (eight /\ Diagonal(c, At(fs, i)))

\* the occupied cells of the grid
Occupied == {c \in Cells(w, h) : get(cellfield, c[1], c[2])}

\* the entries of fs with an age above 0, in their order
Older(fs) == SelectSeq(fs, LAMBDA f : f[3] > 0)

\* the entries of fs with an age below maxage, in their order, one step older
OneOlder(fs, maxage) ==
    LET young == SelectSeq(fs, LAMBDA f : f[3] < maxage)
    IN  [i \in 1..Len(young) |-> <<young[i][1], young[i][2], young[i][3] + 1>>]

\* C13, as claimed: in one frame, every fire (x, y, age) of the current set
\* with age < firemaxage is in the next set exactly once as (x, y, age + 1),
\* and a fire with age >= firemaxage is not in it as (x, y, age + 1).
C13_AgedOnce ==
    [][\A i \in 1..Len(fires) :
          LET next == <<fires[i][1], fires[i][2], fires[i][3] + 1>>
          IN  IF fires[i][3] < firemaxage'
              THEN Count(fires', next) = 1
              ELSE Count(fires', next) = 0]_vars

\* C13, amended: in one frame, the entries of the next set with an age above
\* 0 are, in the same order, the entries of the current set with
\* age < firemaxage, each at the same coordinates and one step older: every
\* such entry is carried exactly once, so (x, y, age + 1) is in the next set
\* as often as (x, y, age) is in the current one; the entries with
\* age >= firemaxage are dropped; and every other entry of the next set has
\* age 0.
C13_AgedPerEntry ==
    [][/\ Older(fires') = OneOlder(fires, firemaxage')
       /\ Older(SubSeq(fires', 1, nprop')) = Older(fires')
       /\ \A e \in FireSet(fires) :
              Count(fires', <<e[1], e[2], e[3] + 1>>)
                  = IF e[3] < firemaxage' THEN Count(fires, e) ELSE 0]_vars

\* C13, witness: the propagate loop has carried two equal entries, which now
\* have the age firemaxage (the next frame drops both).
C13_TwinsCarried ==
    \E i, j \in 1..nprop :
        /\ i # j /\ fires[i] = fires[j]
        /\ fires[i][3] > 0 /\ fires[i][3] = firemaxage

\* C14: in one frame, the propagate loop adds at age 0, exactly once, each
\* cell of the grid that was occupied when the frame began and is a
\* neighbour, in the frame's connectivity mode, of a fire of the current set
\* (carried or not), and no other cell; when the loop ends those cells are
\* unoccupied and every other cell is occupied as it was; the new trees of the
\* frame clear no cell.
C14_Contagion ==
    [][\A r \in {Propagate(fires, cellfield, firemaxage', numngh(eightconn'), <<w, h>>)} :
           /\ SubSeq(fires', 1, nprop') = r.newfires
           /\ \A c \in Cells(w, h) :
                  LET lit == c \in Occupied /\ NextToFire(c, fires, eightconn')
                  IN  /\ Count(r.newfires, <<c[1], c[2], 0>>) = IF lit THEN 1 ELSE 0
                      /\ get(r.cellfield, c[1], c[2]) = (c \in Occupied /\ ~lit)
                      /\ get(r.cellfield, c[1], c[2]) => get(cellfield', c[1], c[2])]_vars

\* C14, witness: with firemaxage 0 and 8-connected, a frame has carried no
\* fire and has added three cells of a 2 by 2 grid by contagion, each once:
\* the two orthogonal neighbours and the diagonal one of the fire it dropped.
C14_ThreeAlight ==
    /\ firemaxage = 0 /\ eightconn
    /\ w = 2 /\ h = 2
    /\ nprop = 3
    /\ Cardinality(Coords(SubSeq(fires, 1, nprop))) = 3

\* the fire set fs in the order p
Permuted(fs, p) == [i \in 1..Len(fs) |-> fs[p[i]]]

\* C15: before any frame, for every order of the fire set and every setting
\* of firemaxage and the connectivity, the propagate loop ends with the same
\* grid and the same multiset of new fires as in the set's own order.  (The
\* rest of the frame appends the frame's ignitions and sets its new trees
\* without reading the fire set.)
C15_OrderIndependent ==
    frno < MaxFrames =>
        \A age \in Ages, eight \in BOOLEAN :
            LET own == Propagate(fires, cellfield, age, numngh(eight), <<w, h>>)
            IN  \A p \in Permutations(1..Len(fires)) :
                    LET other == Propagate(Permuted(fires, p), cellfield, age,
                                           numngh(eight), <<w, h>>)
                    IN  /\ other.cellfield = own.cellfield
                        /\ BagOf(other.newfires) = BagOf(own.newfires)

\* C15, witness: before a frame, the set holds three fires or more, two of
\* them at different cells that are both orthogonal neighbours of one
\* occupied cell: the order decides which of the two ignites it.
C15_RivalFires ==
    /\ frno < MaxFrames
    /\ Len(fires) >= 3
    /\ \E i, j \in 1..Len(fires) : \E c \in Occupied :
           /\ At(fires, i) # At(fires, j)
           /\ Orthogonal(c, At(fires, i)) /\ Orthogonal(c, At(fires, j))

\* C18: after every frame each fire of the set is at a cell of the grid, and
\* every coordinate that the propagate loop of the frame passes to
\* cellfield.get and cellfield.clr is a cell of the grid whose block is a
\* block of arr and whose shift is below 64.
C18_InBounds ==
    [][/\ \A i \in 1..Len(fires') :
              /\ 0 <= fires'[i][1] /\ fires'[i][1] < w
              /\ 0 <= fires'[i][2] /\ fires'[i][2] < h
       /\ \A r \in {Propagate(fires, cellfield, firemaxage', numngh(eightconn'), <<w, h>>)} :
              \A c \in r.touched :
                  /\ c \in Cells(w, h)
                  /\ indices(cellfield, c[1], c[2])[1] \in DOMAIN cellfield.arr
                  /\ indices(cellfield, c[1], c[2])[2] \in 0..63]_vars

\* C18, witness: a pointer ignition and contagion have put fires into two
\* opposite corners of a 2 by 2 grid, and the propagate loop has scanned the
\* neighbours of one of them, 8-connected.
C18_CornersAlight ==
    /\ w = 2 /\ h = 2 /\ eightconn
    /\ \E i \in 1..nprop : \E j \in 1..Len(fires) :
           /\ fires[i][3] > 0
           /\ {At(fires, i), At(fires, j)} = {<<0, 0>>, <<1, 1>>}

\* C19: without ignitions and new trees the fire set is empty from some frame
\* on, and no frame adds an occupied cell.
C19_BurnOut ==
    /\ <>[](fires = <<>>)
    /\ [][Occupied' \subseteq Occupied]_vars

\* C19, witness: a run, which starts with a fire, has burnt out and has burnt
\* a 2 by 2 grid down: no fire and no occupied cell is left after more frames
\* than the initial fires last, and frames go on.
C19_BurntDown ==
    /\ w = 2 /\ h = 2
    /\ fires = <<>> /\ Occupied = {}
    /\ frno > MaxAge + 3 /\ frno < BurnCap

\* C20: firemaxage being constant, after every frame each fire has an age in
\* 0..firemaxage, and each entry of age a < firemaxage is then in the set
\* once more at age a + 1 while the entries of age firemaxage are gone: an
\* entry, added at age 0, is in the set for the firemaxage + 1 frames in which
\* its age is 0, 1, .., firemaxage.
C20_AgeBound ==
    [][firemaxage' = firemaxage =>
          /\ \A i \in 1..Len(fires') : fires'[i][3] \in 0..firemaxage
          /\ \A c \in Cells(w, h) : \A a \in 0..(MaxAge + 1) :
                 Count(fires', <<c[1], c[2], a + 1>>)
                     = IF a < firemaxage THEN Count(fires, <<c[1], c[2], a>>) ELSE 0]_vars

\* C20, witness: with firemaxage at MaxAge, the set holds a fire at every age
\* of 0..MaxAge after several frames.
C20_EveryAge ==
    /\ firemaxage = MaxAge
    /\ frno > MaxAge
    /\ \A a \in 0..MaxAge : \E i \in 1..Len(fires) : fires[i][3] = a

====
